---- MODULE Spec2Model ----
(***************************************************************************)
(* VendorVault: the invoice sequencer (BillingService.generate_invoice_    *)
(* number over the invoice_sequence table, through DatabaseConnection.     *)
(* get_cursor) and the Bill model's arithmetic.                            *)
(*                                                                         *)
(* Strings are sequences of one-character strings, so that the date key    *)
(* and the formatted invoice number are computed as the code computes      *)
(* them.  Money is an integer number of 1/10000 rupee; every amount the    *)
(* model draws is a whole number of rupees, so p percent of a subtotal and *)
(* r percent of a taxable amount are exact (binary floating point error is *)
(* not modelled).                                                          *)
(***************************************************************************)
EXTENDS Integers, Sequences, FiniteSets, TLC

(* ------------------------------ bounds -------------------------------- *)

\* Number of terminals / threads that may call the sequencer.
NumCallers == 2

\* Total number of generate_invoice_number calls in one behaviour.
MaxCalls == 4

Callers == 1 .. NumCallers

NoCaller == 0

(* ------------------------------ strings ------------------------------- *)

Date1 == <<"2", "0", "2", "6", "-", "0", "1", "-", "0", "8">>

Date2 == <<"2", "0", "2", "6", "-", "0", "1", "-", "0", "9">>

\* The date arguments the callers pass (valid YYYY-MM-DD calendar dates).
Dates == {Date1, Date2}

\* config.INVOICE_PREFIX
INVOICE_PREFIX == <<"I", "N", "V">>

DigitChar(d) == CASE d = 0 -> "0" [] d = 1 -> "1" [] d = 2 -> "2" [] d = 3 -> "3"
                  [] d = 4 -> "4" [] d = 5 -> "5" [] d = 6 -> "6" [] d = 7 -> "7"
                  [] d = 8 -> "8" [] d = 9 -> "9"

RECURSIVE Decimal(_)
\* str(n) for n >= 0
Decimal(n) == IF n < 10 THEN <<DigitChar(n)>>
              ELSE Decimal(n \div 10) \o <<DigitChar(n % 10)>>

RECURSIVE ZeroPad(_, _)
\* left-pad with "0" to at least width characters
ZeroPad(s, width) == IF Len(s) >= width THEN s ELSE ZeroPad(<<"0">> \o s, width)

\* date.replace("-", "")
DateKey(date) == SelectSeq(date, LAMBDA ch : ch # "-")

\* Mutant: the sequence field is cut to its last four digits
FormatInvoiceNumberWrap(prefix, date_key, sequence) ==
    prefix \o <<"-">> \o date_key \o <<"-">> \o ZeroPad(Decimal(sequence % 10000), 4)

\* config.INVOICE_NUMBER_FORMAT = "{prefix}-{date}-{sequence:04d}"
FormatInvoiceNumber(prefix, date_key, sequence) ==
    prefix \o <<"-">> \o date_key \o <<"-">> \o ZeroPad(Decimal(sequence), 4)

(* ------------------------------- state -------------------------------- *)

VARIABLES
    invoice_sequence,  \* committed rows of the table: set of [date, last_sequence]
    writer,            \* connection holding SQLite's write (RESERVED) lock, or NoCaller
    pc,                \* per caller: "idle" | "select" | "write" | "commit"
    arg,               \* per caller: the date argument of the call in progress
    result,            \* per caller: cursor.fetchone(): <<>> (None) or <<last_sequence>>
    new_sequence,      \* per caller: the local new_sequence
    txn,               \* per caller: <<>> or <<rows>>, the uncommitted table of its connection
    err,               \* per caller: outcome of its latest call
    issued,            \* log of the invoice numbers returned, in order of return
    calls,             \* number of calls started
    overlap,           \* whether a call ever started while another was in progress
    bill,              \* the Bill object
    lastOp,            \* the last operation applied to the Bill object
    lastArg,           \* the arguments of the latest apply_discount on the Bill
    today,             \* the current calendar date (datetime.now(), as YYYY-MM-DD)
    fmtIn,             \* two (date, sequence) pairs handed to the formatter
    fmtOut,            \* the two invoice numbers formatted from them, or <<>>
    cart,              \* per terminal: BillingWindow.cart_items
    phase,             \* per terminal: "idle" | "create_bill" | "save_bill" (finalize_bill)
    sale,              \* per terminal: the Bill of the finalize_bill in progress
    outcome,           \* per terminal: how its latest finalize_bill ended
    stock,             \* simple_products.stock by product name
    billTable,         \* rows of the bill table, in order of insertion
    pdf,               \* totals printed on the latest GST invoice
    columns,           \* column names of the invoice_sequence table, {} when it is absent
    fresh,             \* whether the database file has no tables yet
    lastScript,        \* the maintenance script run last
    runs,              \* number of script runs
    genErr,            \* outcome of the latest sequential generate_invoice_number call
    pending_bills,     \* rows of the pending_bills table
    held,              \* log of the arguments of every inserted pending bill, by pending_id
    saves,             \* number of save_pending_bill calls
    inserted,          \* whether the latest save_pending_bill inserted a row
    saveResult,        \* return value of the latest save_pending_bill: <<>> (None) or <<id>>
    recallArg,         \* the pending_id argument of the latest recall_pending_bill
    recallResult,      \* its return value: <<>> (None) or <<PendingBill>>
    lastPendingOp,     \* the last operation of the PendingBillsManager
    clock,             \* the time, in hours since 00:00 of the first date
    savedAt,           \* log of the hour at which every pending bill was inserted
    queryResult,       \* the PendingBills the latest query returned
    countResult,       \* the employee and the result of the latest get_pending_count
    savePc,            \* per terminal: "idle" | "insert" inside save_pending_bill
    saveArg,           \* per terminal: the employee_id of its save in progress
    totIn,             \* a cart, a discount and a tax rate entered in the billing window
    totOut             \* <<>> or the totals computed from totIn

seqVars == <<invoice_sequence, writer, pc, arg, result, new_sequence, txn, err,
             issued, calls, overlap>>

billVars == <<bill, lastOp, lastArg>>

clockVars == <<today>>

fmtVars == <<fmtIn, fmtOut>>

saleVars == <<cart, phase, sale, outcome, stock, billTable, pdf>>

schemaVars == <<columns, fresh, lastScript, runs, genErr>>

pendingVars == <<pending_bills, held, saves, inserted, saveResult, recallArg,
                 recallResult, lastPendingOp, clock, savedAt, queryResult, countResult,
                 savePc, saveArg>>

\* state of the maintenance scripts and of the pending-bills manager
totalsVars == <<totIn, totOut>>

otherVars == <<schemaVars, pendingVars, totalsVars>>

\* the sequencer's per-call state and logs (everything but the table)
seqCallVars == <<writer, pc, arg, result, new_sequence, txn, err, issued, calls, overlap>>

\* what the sequencer's steps leave alone
nonSeqVars == <<billVars, clockVars, fmtVars, saleVars, otherVars>>

\* what the Bill object's operations leave alone
nonBillVars == <<seqVars, clockVars, fmtVars, saleVars, otherVars>>

vars == <<seqVars, billVars, clockVars, fmtVars, saleVars, otherVars>>

(* ----------------------- the invoice_sequence table ------------------- *)

\* SELECT last_sequence FROM invoice_sequence WHERE date = ?
SelectRows(rows, date) == {r \in rows : r.date = date}

\* cursor.fetchone() of that SELECT
FetchOne(rows, date) ==
    IF SelectRows(rows, date) = {} THEN <<>>
    ELSE <<(CHOOSE r \in SelectRows(rows, date) : TRUE).last_sequence>>

\* Mutant: the UPDATE without its WHERE clause
UpdateRowsNoWhere(rows, sequence, date) ==
    {[r EXCEPT !.last_sequence = sequence] : r \in rows}

\* UPDATE invoice_sequence SET last_sequence = ? WHERE date = ?
UpdateRows(rows, sequence, date) ==
    {IF r.date = date THEN [r EXCEPT !.last_sequence = sequence] ELSE r : r \in rows}

\* UNIQUE(date) of the table
UniqueViolation(rows, date) == SelectRows(rows, date) # {}

\* INSERT INTO invoice_sequence (date, last_sequence) VALUES (?, ?)
InsertRow(rows, date, sequence) == rows \cup {[date |-> date, last_sequence |-> sequence]}

\* Mutant: the increment branch writes back the value it read
NewSequenceNoIncrement(res) == IF res # <<>> THEN res[1] ELSE 1

\* new_sequence of the two branches
NewSequence(res) == IF res # <<>> THEN res[1] + 1 ELSE 1

\* Mutant: the exception path keeps the connection's pending writes
RolledBackKeepsWrites(committed, pending) ==
    IF pending = <<>> THEN committed ELSE pending[1]

\* conn.rollback(): the table is what was committed before
RolledBack(committed, pending) == committed

\* a commit that persists nothing
CommittedLosesWrites(committed, pending) == committed

\* conn.commit(): the connection's pending table becomes the committed one
Committed(committed, pending) == IF pending = <<>> THEN committed ELSE pending[1]

(* ------------------------------- Bill --------------------------------- *)

\* Largest quantity of one bill item.
MaxQty == 2

\* Largest number of items of a bill.
MaxItems == 2

\* One rupee, in the model's money unit of 1/10000 rupee.
Rupee == 100 * 100

\* Products and their unit prices (rupees 30.00 and 50.00).
Catalog == [bread |-> 30 * Rupee, cake |-> 50 * Rupee]

\* BillItem(product_name, quantity, unit_price)
BillItems == {[product_name |-> n, quantity |-> q, unit_price |-> Catalog[n]] :
                 n \in DOMAIN Catalog, q \in 1 .. MaxQty}

\* Absolute discounts passed by the callers (rupees 0, 20.00 and 50.00).
DiscountAmounts == {0, 20 * Rupee, 50 * Rupee}

\* Percentages passed to apply_discount(..., is_percentage=True).
DiscountPercents == {10, 50}

\* config.TAX_RATES
TaxRates == {18, 12, 5, 0}

\* The item lists a Bill is constructed with.
ItemLists == {<<>>} \cup {<<i>> : i \in BillItems}

\* BillItem.get_total
GetTotal(item) == item.quantity * item.unit_price

RECURSIVE SumTotals(_)
\* sum(item.get_total() for item in items)
SumTotals(items) == IF items = <<>> THEN 0
                    ELSE GetTotal(Head(items)) + SumTotals(Tail(items))

\* Bill.calculate_subtotal
CalculateSubtotal(b) == SumTotals(b.items)

\* Bill.calculate_tax: taxable_amount * (tax_rate / 100)
CalculateTax(b) == ((b.subtotal - b.discount) * b.tax_rate) \div 100

\* Bill.calculate_total
CalculateTotal(b) == b.subtotal - b.discount + b.tax_amount

\* Bill._recalculate: the three assignments, in order
Recalculate(b) ==
    LET b1 == [b EXCEPT !.subtotal = CalculateSubtotal(b)]
        b2 == [b1 EXCEPT !.tax_amount = CalculateTax(b1)]
    IN  [b2 EXCEPT !.total = CalculateTotal(b2)]

\* Bill(...): the dataclass constructor; the derived fields keep their defaults
NewBill(bill_no, date, items, discount, tax_rate) ==
    [bill_no |-> bill_no, date |-> date, items |-> items, subtotal |-> 0,
     discount |-> discount, tax_rate |-> tax_rate, tax_amount |-> 0, total |-> 0]

\* Bill.from_db_row: items=[], the other fields are the row's columns
BillFromDbRow(row) ==
    [bill_no |-> row.bill_no, date |-> row.date, items |-> <<>>,
     subtotal |-> row.subtotal, discount |-> row.discount, tax_rate |-> row.tax_rate,
     tax_amount |-> row.tax_amount, total |-> row.total]

\* The columns save_bill writes for a bill
BillRow(b) ==
    [bill_no |-> b.bill_no, date |-> b.date, subtotal |-> b.subtotal,
     discount |-> b.discount, tax_rate |-> b.tax_rate, tax_amount |-> b.tax_amount,
     total |-> b.total]

\* list.pop(index), index counted from 0
Pop(items, index) ==
    [k \in 1 .. Len(items) - 1 |-> IF k <= index THEN items[k] ELSE items[k + 1]]

\* The bill number and date of the Bill object under study.
BillNo1 == FormatInvoiceNumber(INVOICE_PREFIX, DateKey(Date1), 1)

\* Bill with its dataclass defaults
NoBill == NewBill(BillNo1, Date1, <<>>, 0, 18)

(* ------------------- the sale: finalize_bill's data ------------------- *)

\* no finalize_bill in progress: the terminal holds no Bill
NoSale == NewBill(<<>>, <<>>, <<>>, 0, 0)

\* simple_products.stock when the shop opens
InitialStock == [bread |-> 3, cake |-> 3]

\* Largest number of finalize_bill calls in a behaviour of the sale.
MaxSales == 2

\* Largest number of lines in a terminal's cart.
MaxCart == 1

\* Values of discount_input (a spin box with 2 decimals): 0.00 and 0.50
SaleDiscounts == {0, Rupee \div 2}

\* Values of tax_spin
SaleTaxRates == {18, 5}

\* bill table: bill_no TEXT PRIMARY KEY
BillKeyViolation(rows, bill_no) == \E k \in 1 .. Len(rows) : rows[k].bill_no = bill_no

\* UPDATE simple_products SET stock = stock - ? WHERE name = ?, for the first n items
RECURSIVE StockAfter(_, _, _)
StockAfter(st, items, n) ==
    IF n = 0 THEN st
    ELSE LET before == StockAfter(st, items, n - 1)
             item == items[n]
         IN  [before EXCEPT ![item.product_name] = @ - item.quantity]

\* generate_invoice: per item taxable = qty * rate, cgst = sgst = taxable * (tax_rate / 2) / 100,
\* summed over the first n items
RECURSIVE PdfTaxable(_, _)
PdfTaxable(items, n) ==
    IF n = 0 THEN 0
    ELSE PdfTaxable(items, n - 1) + items[n].quantity * items[n].unit_price

RECURSIVE PdfHalfTax(_, _, _)
PdfHalfTax(items, tax_rate, n) ==
    IF n = 0 THEN 0
    ELSE PdfHalfTax(items, tax_rate, n - 1)
         + (items[n].quantity * items[n].unit_price * tax_rate) \div 200

\* The totals row and the summary block of the invoice
PdfTotals(b) ==
    [bill_no |-> b.bill_no,
     total_taxable |-> PdfTaxable(b.items, Len(b.items)),
     total_cgst |-> PdfHalfTax(b.items, b.tax_rate, Len(b.items)),
     total_sgst |-> PdfHalfTax(b.items, b.tax_rate, Len(b.items)),
     grand_total |-> b.total]

\* no invoice printed yet
NoPdf == [bill_no |-> <<>>, total_taxable |-> 0, total_cgst |-> 0, total_sgst |-> 0,
          grand_total |-> 0]

\* an amount rounded to 2 decimals (paise), in units of 1/10000 rupee
Round2(x) == ((x + 50) \div 100) * 100

(* --------------------- the invoice_sequence schema --------------------- *)

\* migrations._create_invoice_sequence_table, fix_database, setup_simple_inventory
PerDateColumns == {"id", "date", "last_sequence"}

\* create_fresh_db: id INTEGER PRIMARY KEY CHECK (id = 1), last_invoice_number, ...
SingletonColumns == {"id", "last_invoice_number", "last_reset_date", "updated_at"}

\* the columns generate_invoice_number's statements name
RequiredColumns == {"date", "last_sequence"}

\* INSERT OR IGNORE INTO invoice_sequence (id, last_invoice_number) VALUES (1, 0)
SingletonRows == {[id |-> 1, last_invoice_number |-> 0]}

(* ------------------------------ initial ------------------------------- *)

InitSeq ==
    /\ invoice_sequence = {}
    /\ writer = NoCaller
    /\ pc = [c \in Callers |-> "idle"]
    /\ arg = [c \in Callers |-> <<>>]
    /\ result = [c \in Callers |-> <<>>]
    /\ new_sequence = [c \in Callers |-> 0]
    /\ txn = [c \in Callers |-> <<>>]
    /\ err = [c \in Callers |-> "none"]
    /\ issued = <<>>
    /\ calls = 0
    /\ overlap = FALSE

\* no apply_discount has been called
NoArg == [discount |-> 0, is_percentage |-> FALSE]

InitBill ==
    /\ bill = NoBill
    /\ lastOp = "init"
    /\ lastArg = NoArg

\* A Bill object right after its construction: by Bill(...) as create_bill builds
\* it, or by Bill.from_db_row on the row save_bill wrote for a created bill
InitBillObject ==
    /\ lastArg = NoArg
    /\ \E its \in ItemLists, d \in DiscountAmounts, r \in TaxRates :
        \/ /\ bill = NewBill(BillNo1, Date1, its, d, r)
           /\ lastOp = "init"
        \/ /\ bill = BillFromDbRow(BillRow(Recalculate(NewBill(BillNo1, Date1, its, d, r))))
           /\ lastOp = "from_db_row"

InitClock == today = Date1

InitFmt == fmtIn = <<>> /\ fmtOut = <<>>

\* The billing windows are open with empty carts; nothing has been sold yet
InitSale ==
    /\ cart = [t \in Callers |-> <<>>]
    /\ phase = [t \in Callers |-> "idle"]
    /\ sale = [t \in Callers |-> NoSale]
    /\ outcome = [t \in Callers |-> "none"]
    /\ stock = InitialStock
    /\ billTable = <<>>
    /\ pdf = NoPdf

\* The database has the per-date invoice_sequence table; no script has run
InitSchema ==
    /\ columns = PerDateColumns
    /\ fresh = FALSE
    /\ lastScript = "none"
    /\ runs = 0
    /\ genErr = "none"

\* No bill is held
\* The hour at which the shift begins (16:00 of the first date).
ClockStart == 16

\* get_pending_count has not been called
NoCount == [employee_id |-> 0, count |-> 0]

InitPending ==
    /\ clock = ClockStart
    /\ savedAt = <<>>
    /\ queryResult = {}
    /\ countResult = NoCount
    /\ savePc = [t \in Callers |-> "idle"]
    /\ saveArg = [t \in Callers |-> 0]
    /\ pending_bills = {}
    /\ held = <<>>
    /\ saves = 0
    /\ inserted = FALSE
    /\ saveResult = <<>>
    /\ recallArg = 0
    /\ recallResult = <<>>
    /\ lastPendingOp = "init"

\* no totals have been computed
InitTotals == totIn = <<>> /\ totOut = <<>>

InitOther == InitSchema /\ InitPending /\ InitTotals

Init == InitSeq /\ InitBill /\ InitClock /\ InitFmt /\ InitSale /\ InitOther

(* ----------------------- generate_invoice_number ---------------------- *)

\* the call begins: date_key is computed and get_cursor opens a connection
StartCall(c, d) ==
    /\ pc[c] = "idle"
    /\ calls < MaxCalls
    /\ pc' = [pc EXCEPT ![c] = "select"]
    /\ arg' = [arg EXCEPT ![c] = d]
    /\ err' = [err EXCEPT ![c] = "none"]
    /\ calls' = calls + 1
    /\ overlap' = (overlap \/ \E o \in Callers \ {c} : pc[o] # "idle")
    /\ UNCHANGED <<invoice_sequence, writer, result, new_sequence, txn, issued>>

\* generate_invoice_number(date) called with an explicit date
Start(c, d) == StartCall(c, d) /\ UNCHANGED nonSeqVars

\* the SELECT and fetchone(): an autocommit read of the committed table
Select(c) ==
    /\ pc[c] = "select"
    /\ result' = [result EXCEPT ![c] = FetchOne(invoice_sequence, arg[c])]
    /\ pc' = [pc EXCEPT ![c] = "write"]
    /\ UNCHANGED <<invoice_sequence, writer, arg, new_sequence, txn, err, issued,
                   calls, overlap>>
    /\ UNCHANGED nonSeqVars

\* the exception path of get_cursor: rollback, close, re-raise
Raise(c, e) ==
    /\ invoice_sequence' = RolledBack(invoice_sequence, txn[c])
    /\ writer' = IF writer = c THEN NoCaller ELSE writer
    /\ pc' = [pc EXCEPT ![c] = "idle"]
    /\ arg' = [arg EXCEPT ![c] = <<>>]
    /\ result' = [result EXCEPT ![c] = <<>>]
    /\ new_sequence' = [new_sequence EXCEPT ![c] = 0]
    /\ txn' = [txn EXCEPT ![c] = <<>>]
    /\ err' = [err EXCEPT ![c] = e]
    /\ UNCHANGED <<issued, calls, overlap>>
    /\ UNCHANGED nonSeqVars

\* the UPDATE branch: the statement opens the write transaction
WriteUpdate(c) ==
    /\ pc[c] = "write"
    /\ result[c] # <<>>
    /\ writer = NoCaller
    /\ new_sequence' = [new_sequence EXCEPT ![c] = NewSequence(result[c])]
    /\ txn' = [txn EXCEPT ![c] =
                  <<UpdateRows(invoice_sequence, NewSequence(result[c]), arg[c])>>]
    /\ writer' = c
    /\ pc' = [pc EXCEPT ![c] = "commit"]
    /\ UNCHANGED <<invoice_sequence, arg, result, err, issued, calls, overlap>>
    /\ UNCHANGED nonSeqVars

\* the INSERT branch
WriteInsert(c) ==
    /\ pc[c] = "write"
    /\ result[c] = <<>>
    /\ writer = NoCaller
    /\ IF UniqueViolation(invoice_sequence, arg[c])
       THEN Raise(c, "IntegrityError")
       ELSE /\ new_sequence' = [new_sequence EXCEPT ![c] = NewSequence(result[c])]
            /\ txn' = [txn EXCEPT ![c] =
                          <<InsertRow(invoice_sequence, arg[c], NewSequence(result[c]))>>]
            /\ writer' = c
            /\ pc' = [pc EXCEPT ![c] = "commit"]
            /\ UNCHANGED <<invoice_sequence, arg, result, err, issued, calls, overlap>>
            /\ UNCHANGED nonSeqVars

\* the write statement finds the database locked until the busy timeout
WriteBusy(c) ==
    /\ pc[c] = "write"
    /\ writer \notin {NoCaller, c}
    /\ Raise(c, "OperationalError")

\* the with-block ends: conn.commit(), then the number is formatted and returned
Commit(c) ==
    /\ pc[c] = "commit"
    /\ invoice_sequence' = Committed(invoice_sequence, txn[c])
    /\ writer' = NoCaller
    /\ issued' = Append(issued,
                    [caller |-> c, date |-> arg[c], read |-> result[c],
                     sequence |-> new_sequence[c],
                     number |-> FormatInvoiceNumber(INVOICE_PREFIX, DateKey(arg[c]),
                                                    new_sequence[c])])
    /\ pc' = [pc EXCEPT ![c] = "idle"]
    /\ arg' = [arg EXCEPT ![c] = <<>>]
    /\ result' = [result EXCEPT ![c] = <<>>]
    /\ new_sequence' = [new_sequence EXCEPT ![c] = 0]
    /\ txn' = [txn EXCEPT ![c] = <<>>]
    /\ err' = [err EXCEPT ![c] = "ok"]
    /\ UNCHANGED <<calls, overlap>>
    /\ UNCHANGED nonSeqVars

\* the exception a failing statement or commit raises, named by where it fails
FaultAt(stage) == CASE stage = "select" -> "ReadError"
                    [] stage = "write" -> "WriteError"
                    [] stage = "commit" -> "CommitError"

\* the database read, write or commit fails (I/O error, database unavailable)
Fault(c) ==
    /\ pc[c] \in {"select", "write", "commit"}
    /\ Raise(c, FaultAt(pc[c]))

Next ==
    \E c \in Callers :
        \/ \E d \in Dates : Start(c, d)
        \/ Select(c)
        \/ WriteUpdate(c)
        \/ WriteInsert(c)
        \/ WriteBusy(c)
        \/ Commit(c)
        \/ Fault(c)

Spec == Init /\ [][Next]_vars

(* -------------------------------- Bill -------------------------------- *)

\* bill._recalculate(), as create_bill calls it on the Bill it built
DoRecalculate ==
    /\ bill' = Recalculate(bill)
    /\ lastOp' = "_recalculate"
    /\ lastArg' = NoArg
    /\ UNCHANGED nonBillVars

\* Bill.add_item
AddItem(item) ==
    /\ Len(bill.items) < MaxItems
    /\ bill' = Recalculate([bill EXCEPT !.items = Append(bill.items, item)])
    /\ lastOp' = "add_item"
    /\ lastArg' = NoArg
    /\ UNCHANGED nonBillVars

\* Bill.remove_item
RemoveItem(index) ==
    /\ bill' = IF 0 <= index /\ index < Len(bill.items)
               THEN Recalculate([bill EXCEPT !.items = Pop(bill.items, index)])
               ELSE bill
    /\ lastOp' = "remove_item"
    /\ lastArg' = NoArg
    /\ UNCHANGED nonBillVars

\* Bill.apply_discount
ApplyDiscount(discount, is_percentage) ==
    /\ bill' = Recalculate([bill EXCEPT !.discount =
                   IF is_percentage THEN (bill.subtotal * discount) \div 100
                   ELSE discount])
    /\ lastOp' = "apply_discount"
    /\ lastArg' = [discount |-> discount, is_percentage |-> is_percentage]
    /\ UNCHANGED nonBillVars

\* Bill.set_tax_rate
SetTaxRate(tax_rate) ==
    /\ bill' = Recalculate([bill EXCEPT !.tax_rate = tax_rate])
    /\ lastOp' = "set_tax_rate"
    /\ lastArg' = NoArg
    /\ UNCHANGED nonBillVars

NextBill ==
    \/ DoRecalculate
    \/ \E item \in BillItems : AddItem(item)
    \/ \E index \in -1 .. MaxItems : RemoveItem(index)
    \/ \E d \in DiscountAmounts : ApplyDiscount(d, FALSE)
    \/ \E p \in DiscountPercents : ApplyDiscount(p, TRUE)
    \/ \E r \in TaxRates : SetTaxRate(r)

InitBillSpec == InitSeq /\ InitBillObject /\ InitClock /\ InitFmt /\ InitSale /\ InitOther

SpecBill == InitBillSpec /\ [][NextBill]_vars

(* ====================== claims on the sequencer ======================= *)

\* the stored last_sequence of a date, 0 when the date has no row
Stored(d) == IF SelectRows(invoice_sequence, d) = {} THEN 0
             ELSE (CHOOSE r \in SelectRows(invoice_sequence, d) : TRUE).last_sequence

\* the positions of the log at which a number was returned for date d
IssuedFor(d) == {i \in DOMAIN issued : issued[i].date = d}

Errors == {"IntegrityError", "OperationalError", "ReadError", "WriteError", "CommitError"}

\* C1: callers that find a row for the date (last_sequence = k >= 1) never read
\* the same last_sequence and both return the same incremented value: the
\* sequence values returned for a date by the increment branch are pairwise
\* distinct.
C1_NoLostUpdate ==
    \A i, j \in DOMAIN issued :
        (i < j /\ issued[i].date = issued[j].date
           /\ issued[i].read # <<>> /\ issued[j].read # <<>>)
        => /\ issued[i].read # issued[j].read
           /\ issued[i].sequence # issued[j].sequence

\* C2: a caller that saw no row for the date and loses the race on the INSERT
\* retries as an increment: no call ever surfaces the UNIQUE(date) rejection,
\* and two racing first calls return the sequences 1 and 2.
C2_InsertRaceRetried ==
    \A c \in Callers : err[c] # "IntegrityError"

\* C3: non-overlapping successful calls on a date return 1, 2, 3, ... in order:
\* the i-th number returned for the date has sequence i, and the first number
\* returned for 2026-01-08 is INV-20260108-0001.
C3_SequentialMonotonic ==
    ~overlap =>
        /\ \A i \in DOMAIN issued :
              issued[i].sequence =
                  Cardinality({j \in IssuedFor(issued[i].date) : j <= i})
        /\ \A i \in DOMAIN issued :
              (issued[i].date = Date1 /\ issued[i].sequence = 1)
              => issued[i].number =
                     <<"I", "N", "V", "-", "2", "0", "2", "6", "0", "1", "0", "8",
                       "-", "0", "0", "0", "1">>
        /\ \A d \in Dates :
              (\A c \in Callers : pc[c] = "idle") => Stored(d) = Cardinality(IssuedFor(d))

\* C3 witness: three non-overlapping calls returned 1, 2 and 3 for the first
\* date, with a call that failed at its commit among them.
C3_Witness ==
    /\ ~overlap
    /\ Len(issued) = 3
    /\ \A i \in 1 .. 3 : issued[i].date = Date1 /\ issued[i].sequence = i
    /\ \E c \in Callers : err[c] = "CommitError"

\* C4: no two successful calls, sequential or concurrent, for any dates, return
\* the same invoice number string.
C4_NumbersUnique ==
    \A i, j \in DOMAIN issued : i # j => issued[i].number # issued[j].number

\* C5: a step of generate_invoice_number(d1) leaves the record of every other
\* date d2 as it was, and the call that creates the record of a date returns
\* sequence 1 whatever was issued for other dates.
C5_CrossDateStep ==
    /\ \A c \in Callers, d2 \in Dates :
          (pc'[c] # pc[c] /\ d2 # (IF pc[c] = "idle" THEN arg'[c] ELSE arg[c]))
          => SelectRows(invoice_sequence', d2) = SelectRows(invoice_sequence, d2)
    /\ (Len(issued') = Len(issued) + 1
          /\ SelectRows(invoice_sequence, issued'[Len(issued')].date) = {})
       => /\ issued'[Len(issued')].sequence = 1
          /\ issued'[Len(issued')].number =
                 FormatInvoiceNumber(INVOICE_PREFIX,
                                     DateKey(issued'[Len(issued')].date), 1)

C5_CrossDateIndependence == [][C5_CrossDateStep]_vars

\* C5 witness: after two numbers for the first date, the first call for the
\* second date returned sequence 1 and the first date's record is still 2.
C5_Witness ==
    /\ Len(issued) = 3
    /\ issued[2].date = Date1 /\ issued[2].sequence = 2
    /\ issued[3].date = Date2 /\ issued[3].sequence = 1
    /\ invoice_sequence = {[date |-> Date1, last_sequence |-> 2],
                           [date |-> Date2, last_sequence |-> 1]}

\* C6: a call whose database read, write or commit fails ends with an error,
\* returns no invoice number and leaves the stored table as it was.
C6_FailureStep ==
    \A c \in Callers :
        (pc[c] # "idle" /\ err'[c] \in Errors)
        => /\ invoice_sequence' = invoice_sequence
           /\ issued' = issued
           /\ pc'[c] = "idle"

C6_FailureLeavesCounter == [][C6_FailureStep]_vars

\* C6 witness: a call failed at its commit, after its UPDATE, and another at
\* its INSERT; the table holds exactly what the two successful calls stored.
C6_Witness ==
    /\ \E c \in Callers : err[c] = "CommitError"
    /\ \E c \in Callers : err[c] = "IntegrityError"
    /\ Len(issued) = 2
    /\ calls = 4
    /\ \A c \in Callers : pc[c] = "idle"
    /\ invoice_sequence = {[date |-> Date1, last_sequence |-> 2]}

\* C7: in every state the stored last_sequence of a date is the number of
\* successful calls for that date (absent counting as none), so the record
\* moves absent -> 1 -> 2 -> ... and is never deleted.
C7_StoredCountsCalls ==
    \A d \in Dates : Stored(d) = Cardinality(IssuedFor(d))

(* ========================= claims on the Bill ========================= *)

Max0(x) == IF x > 0 THEN x ELSE 0

\* C8: after add_item, remove_item, apply_discount or set_tax_rate the bill has
\* subtotal = sum of quantity * unit_price, tax_amount = max(0, subtotal -
\* discount) * tax_rate / 100 and total = max(0, subtotal - discount) + tax_amount.
C8_TotalsClamped ==
    lastOp \in {"add_item", "remove_item", "apply_discount", "set_tax_rate"}
    => /\ bill.subtotal = SumTotals(bill.items)
       /\ bill.tax_amount * 100 = Max0(bill.subtotal - bill.discount) * bill.tax_rate
       /\ bill.total = Max0(bill.subtotal - bill.discount) + bill.tax_amount

\* C9: a bill computed by create_bill (construction, then _recalculate) whose
\* discount exceeds its subtotal has tax_amount = 0 and total = 0, and no
\* computed tax or total is negative.
C9_NonNegative ==
    lastOp = "_recalculate"
    => /\ bill.tax_amount >= 0
       /\ bill.total >= 0
       /\ (bill.discount > bill.subtotal => bill.tax_amount = 0 /\ bill.total = 0)

\* C10: in every state of a Bill object, also right after construction and
\* after from_db_row, subtotal, tax_amount and total are the values recomputed
\* from the current items, discount and tax_rate.
C10_DerivedNeverStale ==
    bill = Recalculate(bill)

\* C21: every apply_discount step sets the discount to the given percentage of
\* the sum of the line totals of the items the bill holds (or to the given
\* amount), leaves the items as they were and recomputes subtotal, tax_amount
\* and total from them.
C21_DiscountStep ==
    lastOp' = "apply_discount" =>
        /\ bill'.discount =
              IF lastArg'.is_percentage
              THEN (SumTotals(bill.items) * lastArg'.discount) \div 100
              ELSE lastArg'.discount
        /\ bill'.items = bill.items
        /\ bill' = Recalculate(bill')

C21_DiscountOfCurrentItems == [][C21_DiscountStep]_vars

\* the with-block of caller c ends in this step
BlockEnds(c) == pc[c] # "idle" /\ pc'[c] = "idle"

\* C22: the committed table changes only in a step that ends a with-block
\* without an exception, and then it becomes the table with the block's writes;
\* a step that ends a block with an exception leaves the committed table as it
\* was and hands the exception to the caller; either way the connection is
\* closed: it holds neither the write lock nor a pending transaction.
C22_CursorStep ==
    /\ \A c \in Callers :
          BlockEnds(c) =>
              /\ err'[c] \in Errors \cup {"ok"}
              /\ err'[c] = "ok" =>
                    /\ pc[c] = "commit"
                    /\ txn[c] # <<>>
                    /\ invoice_sequence' = txn[c][1]
              /\ err'[c] \in Errors => invoice_sequence' = invoice_sequence
              /\ txn'[c] = <<>>
              /\ writer' # c
    /\ invoice_sequence' # invoice_sequence =>
          \E c \in Callers : BlockEnds(c) /\ err'[c] = "ok"

C22_CommitIffNoException == [][C22_CursorStep]_vars

\* one block was rolled back after its write and another one committed
C22_Witness ==
    \E c \in Callers, o \in Callers :
        /\ o # c
        /\ pc[c] = "idle" /\ err[c] = "CommitError"
        /\ pc[o] = "idle" /\ err[o] = "ok"
        /\ invoice_sequence # {}
        /\ txn[c] = <<>> /\ txn[o] = <<>>
        /\ writer = NoCaller

(* ====================== the clock and past dates ====================== *)

\* midnight passes: the current date moves from the first date to the second
Tick ==
    /\ today = Date1
    /\ today' = Date2
    /\ UNCHANGED <<seqVars, billVars, fmtVars, saleVars, otherVars>>

\* generate_invoice_number() with date=None: datetime.now().strftime("%Y-%m-%d")
StartToday(c) ==
    /\ StartCall(c, today)
    /\ UNCHANGED nonSeqVars

NextClock ==
    \/ Tick
    \/ \E c \in Callers :
          \/ StartToday(c)
          \/ \E d \in Dates : Start(c, d)
          \/ Select(c)
          \/ WriteUpdate(c)
          \/ WriteInsert(c)
          \/ WriteBusy(c)
          \/ Commit(c)
          \/ Fault(c)

SpecClock == Init /\ [][NextClock]_vars

\* the dates that are no longer the current date
PastDates == IF today = Date2 THEN {Date1} ELSE {}

\* C15: once a date is no longer the current date, no step changes its
\* invoice_sequence record.
C15_PastDateStep ==
    \A d \in PastDates :
        SelectRows(invoice_sequence', d) = SelectRows(invoice_sequence, d)

C15_PastDateFrozen == [][C15_PastDateStep]_vars

\* C17: a call is never aborted by the busy timeout because of a call for a
\* different date: whenever the write statement of a call for d2 finds the
\* database locked, the connection holding the lock is working on d2 as well.
C17_BusyStep ==
    \A c \in Callers :
        (pc[c] = "write" /\ err'[c] = "OperationalError")
        => arg[writer] = arg[c]

C17_DatesDoNotBlock == [][C17_BusyStep]_vars

(* ========================= the number format ========================== *)

\* Largest of the small sequence values the formatter is tried on.
MaxSeqSample == 3

\* Sequence values around the powers of ten and the four-digit field's limit.
WideSequences == {9, 10, 99, 100, 999, 1000, 9999, 10000, 10001, 19999, 20000, 99999, 100000}

SeqSamples == (1 .. MaxSeqSample) \cup WideSequences

FormatInputs == Dates \X SeqSamples

InitFormatSpec ==
    /\ InitSeq /\ InitBill /\ InitClock /\ InitSale /\ InitOther
    /\ fmtIn \in FormatInputs \X FormatInputs
    /\ fmtOut = <<>>

\* the return value of generate_invoice_number for each of the two inputs
DoFormat ==
    /\ fmtOut = <<>>
    /\ fmtOut' = <<FormatInvoiceNumber(INVOICE_PREFIX, DateKey(fmtIn[1][1]), fmtIn[1][2]),
                   FormatInvoiceNumber(INVOICE_PREFIX, DateKey(fmtIn[2][1]), fmtIn[2][2])>>
    /\ UNCHANGED <<fmtIn, seqVars, billVars, clockVars, saleVars, otherVars>>

SpecFormat == InitFormatSpec /\ [][DoFormat]_vars

\* the characters of an invoice number after its second "-"
SequenceField(number) == SubSeq(number, Len(INVOICE_PREFIX) + 11, Len(number))

\* C13: the number is prefix-YYYYMMDD-sequence with the sequence padded to at
\* least 4 digits and never cut: different (date, sequence) pairs give different
\* strings, also above 9999, and sequence 10000 renders as 10000.
C13_FormatInjective ==
    fmtOut # <<>> =>
        /\ fmtIn[1] # fmtIn[2] => fmtOut[1] # fmtOut[2]
        /\ \A k \in 1 .. 2 :
              /\ Len(SequenceField(fmtOut[k])) >= 4
              /\ SequenceField(fmtOut[k]) =
                     ZeroPad(Decimal(fmtIn[k][2]), Len(SequenceField(fmtOut[k])))
              /\ SubSeq(fmtOut[k], 1, Len(INVOICE_PREFIX) + 10) =
                     INVOICE_PREFIX \o <<"-">> \o DateKey(fmtIn[k][1]) \o <<"-">>
        /\ fmtIn[1] = <<Date1, 10000>> =>
              fmtOut[1] = <<"I", "N", "V", "-", "2", "0", "2", "6", "0", "1", "0", "8",
                            "-", "1", "0", "0", "0", "0">>

\* C13 witness: sequence 10000 and sequence 1 of the same date were formatted.
C13_Witness ==
    /\ fmtIn = <<<<Date1, 10000>>, <<Date1, 1>>>>
    /\ fmtOut # <<>>
    /\ Len(fmtOut[1]) = 18
    /\ Len(fmtOut[2]) = 17

(* ============================ finalize_bill =========================== *)

\* the value the latest generate_invoice_number call of caller c returned
RECURSIVE LastIssued(_, _)
LastIssued(c, n) ==
    IF n = 0 THEN <<>>
    ELSE IF issued[n].caller = c THEN issued[n].number ELSE LastIssued(c, n - 1)

Returned(c) == LastIssued(c, Len(issued))

\* add_to_cart: refused when the quantity exceeds the product's stock
AddToCart(t, n, q) ==
    /\ phase[t] = "idle"
    /\ Len(cart[t]) < MaxCart
    /\ q <= stock[n]
    /\ cart' = [cart EXCEPT ![t] =
                   Append(@, [product_name |-> n, quantity |-> q, unit_price |-> Catalog[n]])]
    /\ UNCHANGED <<phase, sale, outcome, stock, billTable, pdf>>
    /\ UNCHANGED <<seqVars, billVars, clockVars, fmtVars, otherVars>>

\* finalize_bill up to create_bill's call of generate_invoice_number()
FinalizeBill(t, discount, tax_rate) ==
    /\ phase[t] = "idle"
    /\ cart[t] # <<>>
    /\ calls < MaxSales
    /\ StartCall(t, today)
    /\ phase' = [phase EXCEPT ![t] = "create_bill"]
    /\ sale' = [sale EXCEPT ![t] = NewBill(<<>>, <<>>, cart[t], discount, tax_rate)]
    /\ UNCHANGED <<cart, outcome, stock, billTable, pdf>>
    /\ UNCHANGED <<billVars, clockVars, fmtVars, otherVars>>

\* generate_invoice_number returned: create_bill reads the date, builds the Bill
\* and recalculates it
CreateBillReturn(t) ==
    /\ phase[t] = "create_bill"
    /\ pc[t] = "idle"
    /\ err[t] = "ok"
    /\ sale' = [sale EXCEPT ![t] =
                   Recalculate(NewBill(Returned(t), today, sale[t].items,
                                       sale[t].discount, sale[t].tax_rate))]
    /\ phase' = [phase EXCEPT ![t] = "save_bill"]
    /\ UNCHANGED <<cart, outcome, stock, billTable, pdf>>
    /\ UNCHANGED <<seqVars, billVars, clockVars, fmtVars, otherVars>>

\* Mutant: create_bill swallows the exception and goes on with an unnumbered bill
CreateBillRaiseSwallowed(t) ==
    /\ phase[t] = "create_bill"
    /\ pc[t] = "idle"
    /\ err[t] \notin {"none", "ok"}
    /\ sale' = [sale EXCEPT ![t] =
                   Recalculate(NewBill(<<>>, today, sale[t].items,
                                       sale[t].discount, sale[t].tax_rate))]
    /\ phase' = [phase EXCEPT ![t] = "save_bill"]
    /\ UNCHANGED <<cart, outcome, stock, billTable, pdf>>
    /\ UNCHANGED <<seqVars, billVars, clockVars, fmtVars, otherVars>>

\* generate_invoice_number raised: neither create_bill nor finalize_bill catches
\* it, the handler ends there
CreateBillRaise(t) ==
    /\ phase[t] = "create_bill"
    /\ pc[t] = "idle"
    /\ err[t] \notin {"none", "ok"}
    /\ sale' = [sale EXCEPT ![t] = NoSale]
    /\ phase' = [phase EXCEPT ![t] = "idle"]
    /\ outcome' = [outcome EXCEPT ![t] = "raised"]
    /\ UNCHANGED <<cart, stock, billTable, pdf>>
    /\ UNCHANGED <<seqVars, billVars, clockVars, fmtVars, otherVars>>

\* save_bill returns True: the bill row and every stock update were written;
\* finalize_bill prints the invoice and new_transaction() clears the cart
SaveBill(t) ==
    /\ phase[t] = "save_bill"
    /\ ~BillKeyViolation(billTable, sale[t].bill_no)
    /\ billTable' = Append(billTable, BillRow(sale[t]))
    /\ stock' = StockAfter(stock, sale[t].items, Len(sale[t].items))
    /\ pdf' = PdfTotals(sale[t])
    /\ cart' = [cart EXCEPT ![t] = <<>>]
    /\ sale' = [sale EXCEPT ![t] = NoSale]
    /\ phase' = [phase EXCEPT ![t] = "idle"]
    /\ outcome' = [outcome EXCEPT ![t] = "saved"]
    /\ UNCHANGED <<seqVars, billVars, clockVars, fmtVars, otherVars>>

\* save_bill returns False: statement number k of save_bill raised (k = 0 the
\* INSERT, always so on a duplicate bill_no; k > 0 the k-th stock UPDATE, after
\* the INSERT and the earlier UPDATEs were committed); the cart stays
SaveBillFails(t, k) ==
    /\ phase[t] = "save_bill"
    /\ k \in 0 .. Len(sale[t].items)
    /\ BillKeyViolation(billTable, sale[t].bill_no) => k = 0
    /\ billTable' = IF k = 0 THEN billTable ELSE Append(billTable, BillRow(sale[t]))
    /\ stock' = IF k = 0 THEN stock ELSE StockAfter(stock, sale[t].items, k - 1)
    /\ sale' = [sale EXCEPT ![t] = NoSale]
    /\ phase' = [phase EXCEPT ![t] = "idle"]
    /\ outcome' = [outcome EXCEPT ![t] = "failed"]
    /\ UNCHANGED <<cart, pdf>>
    /\ UNCHANGED <<seqVars, billVars, clockVars, fmtVars, otherVars>>

NextSale ==
    \/ Tick
    \/ \E t \in Callers :
          \/ \E n \in DOMAIN Catalog, q \in 1 .. MaxQty : AddToCart(t, n, q)
          \/ \E d \in SaleDiscounts, r \in SaleTaxRates : FinalizeBill(t, d, r)
          \/ Select(t)
          \/ WriteUpdate(t)
          \/ WriteInsert(t)
          \/ WriteBusy(t)
          \/ Commit(t)
          \/ Fault(t)
          \/ CreateBillReturn(t)
          \/ CreateBillRaise(t)
          \/ SaveBill(t)
          \/ \E k \in 0 .. MaxCart : SaveBillFails(t, k)

SpecSale == Init /\ [][NextSale]_vars

(* ------------------------ claims on the sale -------------------------- *)

\* C11: when generate_invoice_number fails during finalize_bill the sale is not
\* completed: while the call of terminal t has not returned a number, no step of
\* t writes a bill row, changes a stock or a cart, or hands a Bill to save_bill;
\* the handler ends with no Bill and the failure as its outcome.
C11_FailureStep ==
    \A t \in Callers :
        (phase[t] = "create_bill" /\ (pc[t] # "idle" \/ err[t] # "ok")) =>
            /\ phase'[t] # "save_bill"
            /\ (pc'[t] # pc[t] \/ phase'[t] # phase[t]) =>
                   /\ billTable' = billTable
                   /\ stock' = stock
                   /\ cart' = cart
            /\ phase'[t] = "idle" => (sale'[t] = NoSale /\ outcome'[t] = "raised")

C11_FailedNumberStopsSale == [][C11_FailureStep]_vars

\* C11 witness: a finalize_bill ended by the sequencer's exception, with the
\* cart still filled, the bill table empty and the stock as it was.
C11_Witness ==
    \E t \in Callers :
        /\ outcome[t] = "raised"
        /\ phase[t] = "idle"
        /\ err[t] \in Errors
        /\ cart[t] # <<>>
        /\ billTable = <<>>
        /\ stock = InitialStock

\* rows of the bill table dated d
BillsOn(d) == {k \in 1 .. Len(billTable) : billTable[k].date = d}

\* C12: every persisted bill_no was issued by the sequencer, no two persisted
\* bills share a bill_no, and for each date the number of persisted bills is at
\* most that date's last_sequence.
C12_BillsFromSequencer ==
    /\ \A k \in 1 .. Len(billTable) :
          \E i \in 1 .. Len(issued) : issued[i].number = billTable[k].bill_no
    /\ \A j, k \in 1 .. Len(billTable) :
          j # k => billTable[j].bill_no # billTable[k].bill_no
    /\ \A d \in Dates : Cardinality(BillsOn(d)) <= Stored(d)

\* C14: on the printed invoice CGST and SGST are each half of the bill's
\* tax_amount, and taxable amount + CGST + SGST is the grand total shown.
C14_TaxSplitMatchesBill ==
    \A k \in 1 .. Len(billTable) :
        billTable[k].bill_no = pdf.bill_no =>
            /\ pdf.total_cgst = pdf.total_sgst
            /\ pdf.total_cgst + pdf.total_sgst = billTable[k].tax_amount
            /\ pdf.total_taxable + pdf.total_cgst + pdf.total_sgst = pdf.grand_total

\* C18: the subtotal, tax_amount and total save_bill writes are the
\* full-precision results rounded to 2 decimals.
C18_PersistedRounded ==
    \A k \in 1 .. Len(billTable) :
        /\ billTable[k].subtotal = Round2(billTable[k].subtotal)
        /\ billTable[k].tax_amount = Round2(billTable[k].tax_amount)
        /\ billTable[k].total = Round2(billTable[k].total)

\* C24: save_bill is all-or-nothing: a step that ends it with False leaves the
\* bill table and every stock as they were, and a step that ends it with True
\* appends the bill row and decrements the stock of every item by its quantity.
C24_SaveStep ==
    \A t \in Callers :
        (phase[t] = "save_bill" /\ phase'[t] = "idle") =>
            /\ outcome'[t] = "failed" => (billTable' = billTable /\ stock' = stock)
            /\ outcome'[t] = "saved" =>
                  /\ billTable' = Append(billTable, BillRow(sale[t]))
                  /\ stock' = StockAfter(stock, sale[t].items, Len(sale[t].items))

C24_SaveAllOrNothing == [][C24_SaveStep]_vars

\* C26: the stock of every product is at least 0 in every state.
C26_StockNonNegative == \A n \in DOMAIN stock : stock[n] >= 0

\* the YYYYMMDD field of an invoice number
DateField(number) == SubSeq(number, Len(INVOICE_PREFIX) + 2, Len(INVOICE_PREFIX) + 9)

\* C27: the date of every bill create_bill returns, without its dashes, is the
\* date field of its bill_no.
C27_BillDateMatchesNumber ==
    \A t \in Callers :
        phase[t] = "save_bill" => DateKey(sale[t].date) = DateField(sale[t].bill_no)

(* ======================= the maintenance scripts ====================== *)

\* Largest number of script runs in a behaviour.
MaxRuns == 3

\* everything the scripts and the sequential call leave alone
nonSchemaVars == <<seqCallVars, billVars, clockVars, fmtVars, saleVars, pendingVars,
                   totalsVars>>

\* A database file without tables, or the application's database with the
\* per-date table
InitSchemaSpec ==
    /\ InitSeq /\ InitBill /\ InitClock /\ InitFmt /\ InitSale /\ InitPending /\ InitTotals
    /\ fresh \in BOOLEAN
    /\ columns = IF fresh THEN {} ELSE PerDateColumns
    /\ lastScript = "none"
    /\ runs = 0
    /\ genErr = "none"

\* run_migrations: CREATE TABLE IF NOT EXISTS invoice_sequence (per-date schema)
RunMigrations ==
    /\ runs < MaxRuns
    /\ columns' = IF columns = {} THEN PerDateColumns ELSE columns
    /\ fresh' = FALSE
    /\ lastScript' = "run_migrations"
    /\ runs' = runs + 1
    /\ UNCHANGED <<invoice_sequence, genErr>>
    /\ UNCHANGED nonSchemaVars

\* step 1 of fix_database and step 3 of setup_simple_inventory: PRAGMA table_info,
\* and DROP TABLE + CREATE TABLE when there is no last_sequence column
RecreateIfNoLastSequence(script) ==
    /\ runs < MaxRuns
    /\ IF "last_sequence" \notin columns
       THEN /\ columns' = PerDateColumns
            /\ invoice_sequence' = {}
       ELSE UNCHANGED <<columns, invoice_sequence>>
    /\ fresh' = FALSE
    /\ lastScript' = script
    /\ runs' = runs + 1
    /\ UNCHANGED genErr

\* fix_database (its other steps do not touch invoice_sequence)
FixDatabase ==
    /\ RecreateIfNoLastSequence("fix_database")
    /\ UNCHANGED nonSchemaVars

\* setup_simple_inventory (its other steps do not touch invoice_sequence)
SetupSimpleInventory ==
    /\ RecreateIfNoLastSequence("setup_simple_inventory")
    /\ UNCHANGED nonSchemaVars

\* create_fresh_db: its first CREATE TABLE (no IF NOT EXISTS) fails on a database
\* that has tables; on a new file it creates the singleton invoice_sequence table
\* and inserts the row (1, 0)
CreateFreshDb ==
    /\ runs < MaxRuns
    /\ IF fresh
       THEN /\ columns' = SingletonColumns
            /\ invoice_sequence' = SingletonRows
            /\ lastScript' = "create_fresh_db"
       ELSE /\ UNCHANGED <<columns, invoice_sequence>>
            /\ lastScript' = "create_fresh_db_failed"
    /\ fresh' = FALSE
    /\ runs' = runs + 1
    /\ UNCHANGED genErr
    /\ UNCHANGED nonSchemaVars

\* one generate_invoice_number(d) call running alone, from SELECT to commit; its
\* SELECT raises OperationalError when the table or a column it names is missing
GenerateAlone(d) ==
    /\ IF RequiredColumns \subseteq columns
       THEN /\ NewSequence(FetchOne(invoice_sequence, d)) <= MaxCalls
            /\ invoice_sequence' =
                  IF FetchOne(invoice_sequence, d) = <<>>
                  THEN InsertRow(invoice_sequence, d, NewSequence(<<>>))
                  ELSE UpdateRows(invoice_sequence,
                                  NewSequence(FetchOne(invoice_sequence, d)), d)
            /\ genErr' = "ok"
       ELSE /\ genErr # "OperationalError"
            /\ genErr' = "OperationalError"
            /\ UNCHANGED invoice_sequence
    /\ UNCHANGED <<columns, fresh, lastScript, runs>>
    /\ UNCHANGED nonSchemaVars

NextSchema ==
    \/ RunMigrations
    \/ FixDatabase
    \/ SetupSimpleInventory
    \/ CreateFreshDb
    \/ \E d \in Dates : GenerateAlone(d)

SpecSchema == InitSchemaSpec /\ [][NextSchema]_vars

\* C16: run_migrations, fix_database and setup_simple_inventory leave the rows
\* (and the schema) of a per-date invoice_sequence table unchanged, and
\* run_migrations run right after create_fresh_db leaves the table with the
\* columns generate_invoice_number requires.
C16_ScriptStep ==
    /\ (/\ runs' # runs
        /\ lastScript' \in {"run_migrations", "fix_database", "setup_simple_inventory"}
        /\ RequiredColumns \subseteq columns)
       => (invoice_sequence' = invoice_sequence /\ columns' = columns)
    /\ (/\ runs' # runs
        /\ lastScript = "create_fresh_db"
        /\ lastScript' = "run_migrations")
       => RequiredColumns \subseteq columns'

C16_ScriptsKeepSequenceTable == [][C16_ScriptStep]_vars

(* ================== the billing window's total and the bill =========== *)

RECURSIVE Carts(_)
\* the carts of 1 to n lines
Carts(n) == IF n = 0 THEN {}
            ELSE Carts(n - 1) \cup
                 {Append(c, i) : c \in {x \in Carts(n - 1) \cup {<<>>} : Len(x) = n - 1},
                                 i \in BillItems}

\* a cart with at least one line, discount_input.value() and tax_spin.value()
TotalInputs ==
    [items : Carts(MaxItems), discount : DiscountAmounts, tax_rate : TaxRates]

\* BillingWindow.get_total
UiGetTotal(items, discount, tax_rate) ==
    IF items = <<>> THEN 0
    ELSE LET subtotal == SumTotals(items)
             taxable == Max0(subtotal - discount)
             tax == (taxable * tax_rate) \div 100
         IN  subtotal - discount + tax

InitTotalsSpec ==
    /\ InitSeq /\ InitBill /\ InitClock /\ InitFmt /\ InitSale /\ InitSchema /\ InitPending
    /\ totIn \in TotalInputs
    /\ totOut = <<>>

\* finalize_bill: get_total, then create_bill and the row save_bill writes
DoTotals ==
    /\ totOut = <<>>
    /\ totOut' = [shown |-> UiGetTotal(totIn.items, totIn.discount, totIn.tax_rate),
                  bill |-> Recalculate(NewBill(BillNo1, Date1, totIn.items,
                                               totIn.discount, totIn.tax_rate)).total,
                  row |-> BillRow(Recalculate(NewBill(BillNo1, Date1, totIn.items,
                                                      totIn.discount,
                                                      totIn.tax_rate))).total]
    /\ UNCHANGED <<totIn, seqVars, billVars, clockVars, fmtVars, saleVars, schemaVars,
                   pendingVars>>

SpecTotals == InitTotalsSpec /\ [][DoTotals]_vars

\* C25: the total get_total shows for a cart, a discount and a tax rate is the
\* total of the Bill create_bill builds from them and of the row save_bill
\* writes.
C25_ShownTotalIsBillTotal ==
    totOut # <<>> => (totOut.shown = totOut.bill /\ totOut.shown = totOut.row)

(* ========================= PendingBillsManager ======================== *)

\* PendingBillsManager.MAX_PENDING_BILLS
MAX_PENDING_BILLS == 10

\* Largest number of save_pending_bill calls in a behaviour.
MaxSaves == 2

\* employee_id of the cashiers
EmployeeIds == {1, 2}

\* The carts held: empty, one line, or one cake followed by one or more bread
PendingCarts ==
    ItemLists \cup {<<i, j>> : i \in {b \in BillItems : b.product_name = "cake"
                                                         /\ b.quantity = 1},
                              j \in {b \in BillItems : b.product_name = "bread"}}

\* customer_name.text().strip() and customer_phone.text().strip()
Customers == {[customer_name |-> "", customer_phone |-> ""],
              [customer_name |-> "Asha", customer_phone |-> "9876543210"]}

\* Values of discount_input and tax_spin when the cart is held
PendingDiscounts == {0, 20 * Rupee}

PendingTaxRates == {18, 0}

\* json.dumps of one cart line: the name, the quantity and the price as text
JsonItem(item) ==
    <<"{", item.product_name, ":">> \o Decimal(item.quantity) \o <<",">>
        \o Decimal(item.unit_price) \o <<"}">>

RECURSIVE JsonDumps(_)
\* json.dumps(cart_items)
JsonDumps(items) ==
    IF items = <<>> THEN <<>> ELSE JsonItem(Head(items)) \o JsonDumps(Tail(items))

RECURSIVE IndexOf(_, _, _)
\* position of the first ch in s at or after k
IndexOf(s, ch, k) == IF s[k] = ch THEN k ELSE IndexOf(s, ch, k + 1)

\* the digit a character stands for
DigitValue(ch) == CHOOSE d \in 0 .. 9 : DigitChar(d) = ch

RECURSIVE ParseDecimal(_)
\* the number a digit string stands for
ParseDecimal(digits) ==
    IF digits = <<>> THEN 0
    ELSE ParseDecimal(SubSeq(digits, 1, Len(digits) - 1)) * 10
         + DigitValue(digits[Len(digits)])

RECURSIVE JsonLoads(_)
\* json.loads(row['cart_items'])
JsonLoads(s) ==
    IF s = <<>> THEN <<>>
    ELSE LET comma == IndexOf(s, ",", 1)
             close == IndexOf(s, "}", 1)
         IN  <<[product_name |-> s[2],
                quantity |-> ParseDecimal(SubSeq(s, 4, comma - 1)),
                unit_price |-> ParseDecimal(SubSeq(s, comma + 1, close - 1))]>>
             \o JsonLoads(SubSeq(s, close + 1, Len(s)))

\* PendingBillsManager.EXPIRY_HOURS
EXPIRY_HOURS == 4

\* the date of an hour of the clock
DateOf(h) == IF h < 24 THEN Date1 ELSE Date2

\* the HH:MM of an hour of the clock
HourMinute(h) == ZeroPad(Decimal(h % 24), 2) \o <<":", "0", "0">>

\* datetime.isoformat(): date and time joined by "T"
IsoFormat(h) == DateOf(h) \o <<"T">> \o HourMinute(h)

\* SQLite's datetime('now'): date and time joined by a space; the machine's clock
\* is on UTC, so SQLite and datetime.now() read the same hour
SqliteDatetime(h) == DateOf(h) \o <<" ">> \o HourMinute(h)

\* the characters of the timestamps in ascending code order
CharOrder == <<" ", "-", "0", "1", "2", "3", "4", "5", "6", "7", "8", "9", ":", "T">>

RECURSIVE TextLess(_, _)
\* a < b on TEXT values: the first differing character decides
TextLess(a, b) ==
    IF b = <<>> THEN FALSE
    ELSE IF a = <<>> THEN TRUE
    ELSE IF Head(a) = Head(b) THEN TextLess(Tail(a), Tail(b))
    ELSE IndexOf(CharOrder, Head(a), 1) < IndexOf(CharOrder, Head(b), 1)

\* _cleanup_expired: DELETE FROM pending_bills WHERE expires_at < datetime('now')
CleanupExpired(rows, h) == {r \in rows : ~TextLess(r.expires_at, SqliteDatetime(h))}

\* customer_phone LIKE '%digits'
EndsWith(phone, digits) ==
    /\ Len(digits) <= Len(phone)
    /\ SubSeq(phone, Len(phone) - Len(digits) + 1, Len(phone)) = digits

\* Python's  x or d  on a number
OrDefault(x, d) == IF x = 0 THEN d ELSE x

\* the row save_pending_bill inserts
PendingRow(pending_id, e, items, customer, discount, tax_rate, expires_at) ==
    [pending_id |-> pending_id, employee_id |-> e,
     customer_name |-> customer.customer_name,
     customer_phone |-> customer.customer_phone,
     cart_items |-> JsonDumps(items), subtotal |-> SumTotals(items),
     discount |-> discount, tax_rate |-> tax_rate, expires_at |-> expires_at]

\* the PendingBill get_pending_bill builds from a row
PendingBillOf(row) ==
    [pending_id |-> row.pending_id, employee_id |-> row.employee_id,
     customer_name |-> row.customer_name, customer_phone |-> row.customer_phone,
     cart_items |-> IF row.cart_items # <<>> THEN JsonLoads(row.cart_items) ELSE <<>>,
     subtotal |-> OrDefault(row.subtotal, 0),
     discount |-> OrDefault(row.discount, 0),
     tax_rate |-> OrDefault(row.tax_rate, 18)]

\* get_pending_bill: <<>> for None
GetPendingBill(rows, pending_id) ==
    IF \E r \in rows : r.pending_id = pending_id
    THEN <<PendingBillOf(CHOOSE r \in rows : r.pending_id = pending_id)>>
    ELSE <<>>

\* get_pending_bills (as a set)
GetPendingBills(rows, e) == {PendingBillOf(r) : r \in {x \in rows : x.employee_id = e}}

\* get_pending_count
GetPendingCount(rows, e) == Cardinality({r \in rows : r.employee_id = e})

\* search_by_phone (as a set)
SearchByPhone(rows, e, digits) ==
    IF digits = <<>> THEN {}
    ELSE {PendingBillOf(r) : r \in {x \in rows : /\ x.employee_id = e
                                                 /\ EndsWith(x.customer_phone, digits)}}

\* DELETE FROM pending_bills WHERE pending_id = ?
DeleteRow(rows, pending_id) == {r \in rows : r.pending_id # pending_id}

\* SELECT last_insert_rowid() on a connection that has inserted nothing
FreshLastInsertRowid == 0

\* the arguments of a save_pending_bill call
SaveArgs(e, items, customer, discount, tax_rate) ==
    [employee_id |-> e, cart_items |-> items, customer_name |-> customer.customer_name,
     customer_phone |-> customer.customer_phone, discount |-> discount,
     tax_rate |-> tax_rate]

\* everything the manager leaves alone
nonPendingVars == <<seqVars, billVars, clockVars, fmtVars, saleVars, schemaVars,
                    totalsVars>>

\* save_pending_bill; fault names the statement that raises: "insert", "query"
\* (the SELECT last_insert_rowid()) or "none"
SavePendingBill(e, items, customer, discount, tax_rate, fault) ==
    /\ saves < MaxSaves
    /\ saves' = saves + 1
    /\ lastPendingOp' = "save"
    /\ IF \/ items = <<>>
          \/ GetPendingCount(pending_bills, e) >= MAX_PENDING_BILLS
          \/ fault = "insert"
       THEN /\ inserted' = FALSE
            /\ saveResult' = <<>>
            /\ UNCHANGED <<pending_bills, held, savedAt>>
       ELSE /\ inserted' = TRUE
            /\ pending_bills' = pending_bills \cup
                   {PendingRow(Len(held) + 1, e, items, customer, discount, tax_rate,
                               IsoFormat(clock + EXPIRY_HOURS))}
            /\ held' = Append(held, SaveArgs(e, items, customer, discount, tax_rate))
            /\ savedAt' = Append(savedAt, clock)
            /\ saveResult' = IF fault = "query" THEN <<>> ELSE <<FreshLastInsertRowid>>
    /\ UNCHANGED <<recallArg, recallResult, clock, queryResult, countResult, savePc,
                   saveArg>>
    /\ UNCHANGED nonPendingVars

\* recall_pending_bill: get_pending_bill, then delete_pending_bill when a bill
\* was found
RecallPendingBill(pending_id) ==
    /\ pending_id <= Len(held)
    /\ lastPendingOp' = "recall"
    /\ recallArg' = pending_id
    /\ recallResult' = GetPendingBill(pending_bills, pending_id)
    /\ pending_bills' = IF GetPendingBill(pending_bills, pending_id) # <<>>
                        THEN DeleteRow(pending_bills, pending_id)
                        ELSE pending_bills
    /\ UNCHANGED <<held, saves, inserted, saveResult, clock, savedAt, queryResult,
                   countResult, savePc, saveArg>>
    /\ UNCHANGED nonPendingVars

\* delete_pending_bill
DeletePendingBill(pending_id) ==
    /\ \E r \in pending_bills : r.pending_id = pending_id
    /\ lastPendingOp' = "delete"
    /\ pending_bills' = DeleteRow(pending_bills, pending_id)
    /\ UNCHANGED <<held, saves, inserted, saveResult, recallArg, recallResult, clock,
                   savedAt, queryResult, countResult, savePc, saveArg>>
    /\ UNCHANGED nonPendingVars

NextPending ==
    \/ \E e \in EmployeeIds, items \in PendingCarts, customer \in Customers,
          discount \in PendingDiscounts, tax_rate \in PendingTaxRates,
          fault \in {"none", "insert", "query"} :
          SavePendingBill(e, items, customer, discount, tax_rate, fault)
    \/ \E pending_id \in 0 .. MaxSaves : RecallPendingBill(pending_id)
    \/ \E pending_id \in 1 .. MaxSaves : DeletePendingBill(pending_id)

SpecPending == Init /\ [][NextPending]_vars

\* C19: save_pending_bill returns the pending_id of the row it inserted, a truthy
\* id that get_pending_bill resolves to the saved cart, whenever the insert
\* succeeds, and None exactly when nothing was saved.
C19_SaveReturnsId ==
    lastPendingOp = "save" =>
        /\ inserted <=> saveResult # <<>>
        /\ inserted =>
              /\ saveResult[1] # 0
              /\ saveResult[1] = Len(held)
              /\ GetPendingBill(pending_bills, saveResult[1]) # <<>>
              /\ GetPendingBill(pending_bills, saveResult[1])[1].cart_items
                     = held[Len(held)].cart_items

\* C20: a recall that finds the bill returns the cart items in order, the
\* customer name and phone, the discount and the tax_rate it was saved with, and
\* afterwards the bill is no longer pending.
C20_RecallRoundTrip ==
    (lastPendingOp = "recall" /\ recallResult # <<>>) =>
        /\ recallResult[1].cart_items = held[recallArg].cart_items
        /\ recallResult[1].customer_name = held[recallArg].customer_name
        /\ recallResult[1].customer_phone = held[recallArg].customer_phone
        /\ recallResult[1].discount = held[recallArg].discount
        /\ recallResult[1].tax_rate = held[recallArg].tax_rate
        /\ GetPendingBill(pending_bills, recallArg) = <<>>
        /\ \A b \in GetPendingBills(pending_bills, held[recallArg].employee_id) :
              b.pending_id # recallArg
        /\ GetPendingCount(pending_bills, held[recallArg].employee_id)
              = Cardinality({r \in pending_bills :
                                r.employee_id = held[recallArg].employee_id
                                /\ r.pending_id # recallArg})

(* ======================= expiry of pending bills ====================== *)

\* The clock moves in steps of two hours.
HourStep == 2

\* The last hour of the clock (00:00 of the second date).
MaxClock == 24

\* A customer with the phone number spelled out, and the digits searched for
PhoneCustomers == {[customer_name |-> "Asha", customer_phone |-> <<"9", "8", "7", "6", "5">>]}

PhoneDigits == {<<>>, <<"6", "5">>, <<"7", "5">>}

\* The one cart held in the expiry scenario
HeldCart == <<[product_name |-> "bread", quantity |-> 1, unit_price |-> Catalog["bread"]]>>

\* time passes
AdvanceClock ==
    /\ clock + HourStep <= MaxClock
    /\ clock' = clock + HourStep
    /\ lastPendingOp' = "clock"
    /\ UNCHANGED <<pending_bills, held, saves, inserted, saveResult, recallArg,
                   recallResult, savedAt, queryResult, countResult, savePc, saveArg>>
    /\ UNCHANGED nonPendingVars

\* get_pending_bills: _cleanup_expired, then the SELECT
GetPendingBillsCall(e) ==
    /\ lastPendingOp' = "get_pending_bills"
    /\ pending_bills' = CleanupExpired(pending_bills, clock)
    /\ queryResult' = GetPendingBills(CleanupExpired(pending_bills, clock), e)
    /\ UNCHANGED <<held, saves, inserted, saveResult, recallArg, recallResult, clock,
                   savedAt, countResult, savePc, saveArg>>
    /\ UNCHANGED nonPendingVars

\* get_pending_bill
GetPendingBillCall(pending_id) ==
    /\ lastPendingOp' = "get_pending_bill"
    /\ queryResult' = {GetPendingBill(pending_bills, pending_id)[k] :
                          k \in DOMAIN GetPendingBill(pending_bills, pending_id)}
    /\ UNCHANGED <<pending_bills, held, saves, inserted, saveResult, recallArg,
                   recallResult, clock, savedAt, countResult, savePc, saveArg>>
    /\ UNCHANGED nonPendingVars

\* search_by_phone
SearchByPhoneCall(e, digits) ==
    /\ lastPendingOp' = "search_by_phone"
    /\ queryResult' = SearchByPhone(pending_bills, e, digits)
    /\ UNCHANGED <<pending_bills, held, saves, inserted, saveResult, recallArg,
                   recallResult, clock, savedAt, countResult, savePc, saveArg>>
    /\ UNCHANGED nonPendingVars

\* get_pending_count
GetPendingCountCall(e) ==
    /\ lastPendingOp' = "get_pending_count"
    /\ countResult' = [employee_id |-> e, count |-> GetPendingCount(pending_bills, e)]
    /\ UNCHANGED <<pending_bills, held, saves, inserted, saveResult, recallArg,
                   recallResult, clock, savedAt, queryResult, savePc, saveArg>>
    /\ UNCHANGED nonPendingVars

NextExpiry ==
    \/ AdvanceClock
    \/ \E e \in EmployeeIds, customer \in PhoneCustomers :
          SavePendingBill(e, HeldCart, customer, 0, 18, "none")
    \/ \E e \in EmployeeIds : GetPendingBillsCall(e)
    \/ \E pending_id \in 1 .. MaxSaves : GetPendingBillCall(pending_id)
    \/ \E e \in EmployeeIds, digits \in PhoneDigits : SearchByPhoneCall(e, digits)
    \/ \E e \in EmployeeIds : GetPendingCountCall(e)
    \/ \E pending_id \in 0 .. MaxSaves : RecallPendingBill(pending_id)

SpecExpiry == Init /\ [][NextExpiry]_vars

\* the expiry time of pending bill pending_id has passed
Expired(pending_id) == savedAt[pending_id] + EXPIRY_HOURS < clock

\* C23: no bill returned by get_pending_bills, get_pending_bill,
\* search_by_phone or recall_pending_bill is past its expiry time (4 hours after
\* it was saved), and get_pending_count, which the limit check uses, counts the
\* employee's unexpired bills only.
C23_ExpiredNeverReturned ==
    /\ lastPendingOp \in {"get_pending_bills", "get_pending_bill", "search_by_phone"} =>
          \A b \in queryResult : ~Expired(b.pending_id)
    /\ (lastPendingOp = "recall" /\ recallResult # <<>>) => ~Expired(recallArg)
    /\ lastPendingOp = "get_pending_count" =>
          countResult.count =
              Cardinality({r \in pending_bills :
                              /\ r.employee_id = countResult.employee_id
                              /\ ~Expired(r.pending_id)})

(* ==================== the limit of pending bills ====================== *)

\* The pending bills that may be recalled or deleted in the limit scenario: the
\* latest one of the table's initial rows and those saved afterwards
LimitIds == (MAX_PENDING_BILLS - 1) .. (MAX_PENDING_BILLS + MaxSaves)

\* The first employee has held 9 or 10 carts at the beginning of the shift;
\* nothing else has happened
InitLimitSpec ==
    /\ InitSeq /\ InitBill /\ InitClock /\ InitFmt /\ InitSale /\ InitSchema /\ InitTotals
    /\ \E n \in {MAX_PENDING_BILLS - 1, MAX_PENDING_BILLS} :
          /\ pending_bills =
                 {PendingRow(k, 1, HeldCart, CHOOSE c \in PhoneCustomers : TRUE, 0, 18,
                             IsoFormat(ClockStart + EXPIRY_HOURS)) : k \in 1 .. n}
          /\ held = [k \in 1 .. n |->
                        SaveArgs(1, HeldCart, CHOOSE c \in PhoneCustomers : TRUE, 0, 18)]
          /\ savedAt = [k \in 1 .. n |-> ClockStart]
    /\ clock = ClockStart
    /\ queryResult = {}
    /\ countResult = NoCount
    /\ savePc = [t \in Callers |-> "idle"]
    /\ saveArg = [t \in Callers |-> 0]
    /\ saves = 0
    /\ inserted = FALSE
    /\ saveResult = <<>>
    /\ recallArg = 0
    /\ recallResult = <<>>
    /\ lastPendingOp = "init"

\* save_pending_bill on terminal t, up to the limit check: get_pending_count
\* runs on a connection of its own and the call returns None at the limit
BeginSave(t, e) ==
    /\ savePc[t] = "idle"
    /\ saves < MaxSaves
    /\ saves' = saves + 1
    /\ lastPendingOp' = "save"
    /\ IF GetPendingCount(pending_bills, e) >= MAX_PENDING_BILLS
       THEN /\ inserted' = FALSE
            /\ saveResult' = <<>>
            /\ UNCHANGED <<savePc, saveArg>>
       ELSE /\ savePc' = [savePc EXCEPT ![t] = "insert"]
            /\ saveArg' = [saveArg EXCEPT ![t] = e]
            /\ UNCHANGED <<inserted, saveResult>>
    /\ UNCHANGED <<pending_bills, held, savedAt, recallArg, recallResult, clock,
                   queryResult, countResult>>
    /\ UNCHANGED nonPendingVars

\* save_pending_bill on terminal t, from the INSERT to the return
InsertSave(t) ==
    /\ savePc[t] = "insert"
    /\ pending_bills' = pending_bills \cup
           {PendingRow(Len(held) + 1, saveArg[t], HeldCart,
                       CHOOSE c \in PhoneCustomers : TRUE, 0, 18,
                       IsoFormat(clock + EXPIRY_HOURS))}
    /\ held' = Append(held, SaveArgs(saveArg[t], HeldCart,
                                     CHOOSE c \in PhoneCustomers : TRUE, 0, 18))
    /\ savedAt' = Append(savedAt, clock)
    /\ inserted' = TRUE
    /\ saveResult' = <<FreshLastInsertRowid>>
    /\ savePc' = [savePc EXCEPT ![t] = "idle"]
    /\ saveArg' = [saveArg EXCEPT ![t] = 0]
    /\ lastPendingOp' = "save"
    /\ UNCHANGED <<saves, recallArg, recallResult, clock, queryResult, countResult>>
    /\ UNCHANGED nonPendingVars

NextLimit ==
    \/ \E t \in Callers, e \in EmployeeIds : BeginSave(t, e)
    \/ \E t \in Callers : InsertSave(t)
    \/ \E pending_id \in LimitIds : RecallPendingBill(pending_id)
    \/ \E pending_id \in LimitIds : DeletePendingBill(pending_id)

SpecLimit == InitLimitSpec /\ [][NextLimit]_vars

\* C28: no employee has more than MAX_PENDING_BILLS rows in pending_bills, and a
\* save that finds the employee at the limit returns None and inserts nothing.
C28_AtMostMaxPending ==
    \A e \in EmployeeIds : GetPendingCount(pending_bills, e) <= MAX_PENDING_BILLS

====
